---- MODULE Spec2Model ----
(***************************************************************************)
(* Model of filewatcher.py: the init and check actions of FileWatcher,     *)
(* the snapshot (database) file with its backups, and the file system the  *)
(* script reads and writes.  One process runs at a time (main, line 276);  *)
(* between two runs the environment may change the watched tree, the       *)
(* snapshot file and the clock.                                            *)
(*                                                                         *)
(* Paths and masks are sequences of one-character strings, so that base    *)
(* names, prefixes and glob patterns are computed rather than assumed.     *)
(* Line 207 of the source, a TODO placeholder, is no statement of init and *)
(* has no counterpart here.  helpers.get_files (pyxmaxlibs) is not part of *)
(* the source; it is modelled from the specification's TreeScanner.        *)
(***************************************************************************)
EXTENDS Integers, Sequences, FiniteSets, TLC

\* ------------------------------------------------------------------ bounds

\* Process runs (init or check) and changes by the environment, together, in
\* one behaviour.
MaxSteps == 3
\* The clock, in milliseconds after EpochSec, and how far one tick moves it.
MaxClock == 8
TickMs == 4
\* File modification times the environment hands out.
MaxMtime == 2
\* Whole seconds of the clock's origin (ten digits, as time.time() has).
EpochSec == 1300000000

\* ------------------------------------------------------------------- paths

SLASH == <<"/">>

WatchedDir == <<"/", "d">>

OtherDir == <<"/", "o">>

\* DATABASE_FILE = "filewatcher-db.json"
DATABASE_FILE ==
    <<"f","i","l","e","w","a","t","c","h","e","r","-","d","b",".","j","s","o","n">>

\* the file init writes with a relative name: "tempfiledata.txt"
TEMP_FILE ==
    <<"t","e","m","p","f","i","l","e","d","a","t","a",".","t","x","t">>

BACKUP_INFIX == <<".","b","a","c","k","u","p",".">>

XLog == WatchedDir \o <<"/","x",".","l","o","g">>

YTxt == WatchedDir \o <<"/","s","/","y",".","t","x","t">>

UserFiles == {XLog, YTxt}

\* opts.database: the default inside the watched directory, or -b elsewhere
DbPaths == {WatchedDir \o SLASH \o DATABASE_FILE, OtherDir \o SLASH \o DATABASE_FILE}

\* the current directory: the watched directory (the default of -d) or not
Cwds == {WatchedDir, OtherDir}

\* watch_masks and ignore_list values a configuration file supplies
MaskSets ==
    { {}, {<<"?",".","l","o","g">>}, {<<"?",".","l","o","g">>, <<"*",".","t","x","t">>} }

IgnoreLists == { {}, {YTxt} }

\* -------------------------------------------------------------- conversions

RECURSIVE Digits(_)
\* decimal digits of a natural number
Digits(n) ==
    LET d == <<"0","1","2","3","4","5","6","7","8","9">>[(n % 10) + 1]
    IN  IF n < 10 THEN <<d>> ELSE Digits(n \div 10) \o <<d>>

\* str(time.time()) of Python 2: '%.12g', i.e. ten integer digits and the
\* fraction rounded to two decimals, trailing zeros dropped ("...0.0" kept).
StrTime(t) ==
    LET cs   == (t + 5) \div 10
        sec  == EpochSec + (cs \div 100)
        frac == cs % 100
    IN  Digits(sec) \o <<".">> \o
        (IF frac % 10 = 0 THEN Digits(frac \div 10)
         ELSE IF frac < 10 THEN <<"0">> \o Digits(frac)
         ELSE Digits(frac))

BackupPath(db, t) == db \o BACKUP_INFIX \o StrTime(t)

TempPath(dir) == dir \o SLASH \o TEMP_FILE

ClockValues == 0..MaxClock

AllPaths ==
    UserFiles \cup DbPaths \cup {TempPath(c) : c \in Cwds}
      \cup {BackupPath(db, t) : db \in DbPaths, t \in ClockValues}

RECURSIVE LastSlash(_, _)
\* index of the last "/" among the first i elements of p (0: none)
LastSlash(p, i) ==
    IF i = 0 THEN 0
    ELSE IF p[i] = "/" THEN i ELSE LastSlash(p, i - 1)

\* os.path.basename
Basename(p) == SubSeq(p, LastSlash(p, Len(p)) + 1, Len(p))

\* p lies under directory dir (at any depth)
Under(p, dir) ==
    /\ Len(p) > Len(dir) + 1
    /\ SubSeq(p, 1, Len(dir) + 1) = dir \o SLASH

RECURSIVE Fnmatch(_, _)
\* fnmatch.fnmatch(name, pat) for patterns of literals, "?" and "*"
Fnmatch(name, pat) ==
    IF pat = <<>> THEN name = <<>>
    ELSE IF Head(pat) = "*"
         THEN \/ Fnmatch(name, Tail(pat))
              \/ (name # <<>> /\ Fnmatch(Tail(name), pat))
    ELSE /\ name # <<>>
         /\ (Head(pat) = "?" \/ Head(pat) = Head(name))
         /\ Fnmatch(Tail(name), Tail(pat))

\* ------------------------------------------------------------- file system

\* what one path of the file system holds
NoData == [kind |-> "none", entries |-> {}]

UserData == [kind |-> "user", entries |-> {}]

\* an empty, truncated or otherwise unparseable snapshot file
BadJson == [kind |-> "unparseable", entries |-> {}]

Missing == [exists |-> FALSE, mtime |-> 0, data |-> NoData]

File(m, d) == [exists |-> TRUE, mtime |-> m, data |-> d]

Mtimes == 1..MaxMtime

\* time.strftime("%Y-%m-%d %H:%M:%S", time.localtime(dt)): whole seconds
Human(dt) == dt \div 1000

\* json.dump(data, fp): one entry per key of the dictionary
JsonDump(d) ==
    [kind |-> "json",
     entries |-> {[key |-> k, last_modif |-> d[k].last_modif,
                   last_modif_human |-> d[k].last_modif_human] : k \in DOMAIN d}]

\* json.load(f) of a parseable snapshot: the dictionary back
JsonLoad(text) ==
    [k \in {e.key : e \in text.entries} |->
        LET e == CHOOSE x \in text.entries : x.key = k
        IN  [last_modif |-> e.last_modif, last_modif_human |-> e.last_modif_human]]

\* str(data), written to tempfiledata.txt
StrData(d) == [kind |-> "text", entries |-> JsonDump(d).entries]

EmptyDict == [k \in {} |-> [last_modif |-> 0, last_modif_human |-> 0]]

VARIABLES
    fs,            \* AllPaths -> Missing or File(mtime, data)
    dir_exists,    \* the watched directory exists
    now,           \* time.time(), in milliseconds after EpochSec
    database,      \* config.database
    cwd,           \* the process's current directory
    pc,            \* where the running process is ("idle": none ran yet)
    action,        \* config.action: "init" or "check"
    watch_masks,   \* config.watch_masks
    ignore_list,   \* config.ignore_list
    data,          \* the dictionary init builds or check loads
    modified,      \* self._modified
    removed,       \* self._removed
    added,         \* self._added
    printed,       \* summarize printed the report
    log,           \* what the logger and the interpreter reported
    exit_status,   \* the process's exit status (-1: still running)
    backup_path,   \* where init renamed the old snapshot to (<<>>: nowhere)
    old_db,        \* history: the snapshot file as init found it
    wrote,         \* history: "ok" or "failed" once init tried to write the snapshot
    snap,          \* history: configuration of the last complete init, and
                   \*          whether anything changed since it finished
    ever_written,  \* history: every snapshot content init wrote completely
    interfered,    \* history: the environment changed snapshot or backups
    track,         \* the history variables are kept (fixed in a behaviour)
    steps          \* runs started and changes made by the environment so far

vars ==
    <<fs, dir_exists, now, database, cwd, pc, action, watch_masks, ignore_list,
      data, modified, removed, added, printed, log, exit_status, backup_path,
      old_db, wrote, snap, ever_written, interfered, track, steps>>

config == <<database, cwd, track>>

proc == <<pc, action, watch_masks, ignore_list, data, modified, removed, added,
          printed, log, exit_status, backup_path, old_db, wrote>>

history == <<snap, ever_written, interfered>>

env == <<dir_exists, now, steps>>

\* before the first run: a tree with one or two files, no snapshot yet
InitState ==
    /\ \E y \in {Missing, File(1, UserData)} :
          fs = [p \in AllPaths |-> IF p = XLog THEN File(1, UserData)
                                   ELSE IF p = YTxt THEN y ELSE Missing]
    /\ dir_exists = TRUE
    /\ now = 0
    /\ database \in DbPaths
    /\ cwd \in Cwds
    /\ pc = "idle"
    /\ action = "none"
    /\ watch_masks = {}
    /\ ignore_list = {}
    /\ data = EmptyDict
    /\ modified = {}
    /\ removed = {}
    /\ added = {}
    /\ printed = FALSE
    /\ log = {}
    /\ exit_status = -1
    /\ backup_path = <<>>
    /\ old_db = Missing
    /\ wrote = "none"
    /\ snap = [stable |-> FALSE, masks |-> {}, ignore |-> {}]
    /\ ever_written = {}
    /\ interfered = FALSE
    /\ steps = 0

Init == InitState /\ track = FALSE

InitHistory == InitState /\ track = TRUE

\* ------------------------------------------------- the library and os calls

\* helpers.get_files(path=watched_dir, file_mask=masks, recursive=True):
\* full paths of the files under the watched directory whose base name
\* matches a mask (every file when there is no mask)
GetFiles(f, masks) ==
    {p \in AllPaths :
        /\ f[p].exists
        /\ Under(p, WatchedDir)
        /\ (masks = {} \/ \E m \in masks : Fnmatch(Basename(p), m))}

\* helpers.get_files on a directory that does not exist fails
ScanError == ~dir_exists

\* a slip: the ignore list is not consulted
BuildDataNoIgnore(f, file_names, ignore) ==
    [name \in file_names |->
        [last_modif |-> f[name].mtime, last_modif_human |-> Human(f[name].mtime)]]

\* init's loop over file_names
BuildData(f, file_names, ignore) ==
    [name \in {n \in file_names : n \notin ignore} |->
        [last_modif |-> f[name].mtime, last_modif_human |-> Human(f[name].mtime)]]

\* a slip: removed are the keys the filtered scan does not return
RemovedOfByScan(d, f) ==
    {file_name \in DOMAIN d :
        file_name \notin GetFiles(f, watch_masks) \ ignore_list}

\* check's loop over data.items(): os.path.getmtime raised OSError
RemovedOf(d, f) == {file_name \in DOMAIN d : ~f[file_name].exists}

\* a slip: a file that cannot be read counts as changed, too
ModifiedOfNoTry(d, f) ==
    {file_name \in DOMAIN d : f[file_name].mtime # d[file_name].last_modif}

\* check's loop over data.items(): dt != values["last_modif"]
ModifiedOf(d, f) ==
    {file_name \in DOMAIN d :
        f[file_name].exists /\ f[file_name].mtime # d[file_name].last_modif}

\* a slip: the ignore list is not consulted
AddedOfNoIgnore(d, curr_file_names, ignore) ==
    {file_name \in curr_file_names : file_name \notin DOMAIN d}

\* check's loop over curr_file_names
AddedOf(d, curr_file_names, ignore) ==
    {file_name \in curr_file_names :
        file_name \notin ignore /\ file_name \notin DOMAIN d}

\* the process ends: sys.exit(ret_val) or the end of main, or a traceback
Finish(status) ==
    /\ pc' = "done"
    /\ exit_status' = status

Resting == pc \in {"idle", "done"}

\* ------------------------------------------------------------------ main

\* main: a new process, its FileWatcher constructed, about to call the action.
\* The wall clock has advanced since the last run by one tick, or by less
\* than it takes to show (it is not monotonic, and two runs may be close).
Start(a, masks, ignore, advance) ==
    /\ Resting
    /\ steps < MaxSteps
    /\ steps' = steps + 1
    /\ action' = a
    /\ watch_masks' = masks
    /\ ignore_list' = ignore
    /\ data' = EmptyDict
    /\ modified' = {}
    /\ removed' = {}
    /\ added' = {}
    /\ printed' = FALSE
    /\ log' = {}
    /\ exit_status' = -1
    /\ backup_path' = <<>>
    /\ wrote' = "none"
    /\ old_db' = IF a = "init" THEN fs[database] ELSE Missing
    /\ snap' = IF a = "init" THEN [snap EXCEPT !.stable = FALSE] ELSE snap
    /\ pc' = IF a = "init" THEN "init_backup" ELSE "check_load"
    /\ now' = IF advance /\ now + TickMs <= MaxClock THEN now + TickMs ELSE now
    /\ UNCHANGED <<fs, config, dir_exists, ever_written, interfered>>

\* ------------------------------------------------------------------ init

\* a slip: the old snapshot file is left in place, to be overwritten
InitBackupNoRename ==
    /\ pc = "init_backup"
    /\ pc' = "init_scan"
    /\ UNCHANGED <<fs, backup_path, log, exit_status>>
    /\ UNCHANGED <<config, env, history, action, watch_masks, ignore_list,
                   data, modified, removed, added, printed, old_db, wrote>>

\* init: if os.path.exists(db_file): os.rename(db_file, db_file + ".backup." + ...)
InitBackup ==
    /\ pc = "init_backup"
    /\ IF fs[database].exists
       THEN \E renamed \in BOOLEAN :
              IF renamed
              THEN /\ fs' = [fs EXCEPT ![BackupPath(database, now)] = fs[database],
                                       ![database] = Missing]
                   /\ backup_path' = BackupPath(database, now)
                   /\ log' = log \cup {"warn: database exists, backupped"}
                   /\ pc' = "init_scan"
                   /\ UNCHANGED exit_status
              ELSE \* OSError is not caught
                   /\ log' = log \cup {"traceback"}
                   /\ Finish(1)
                   /\ UNCHANGED <<fs, backup_path>>
       ELSE /\ pc' = "init_scan"
            /\ UNCHANGED <<fs, backup_path, log, exit_status>>
    /\ UNCHANGED <<config, env, history, action, watch_masks, ignore_list,
                   data, modified, removed, added, printed, old_db, wrote>>

\* init: file_names = helpers.get_files(...), then the dictionary
InitScan ==
    /\ pc = "init_scan"
    /\ IF ~ScanError
       THEN /\ data' = BuildData(fs, GetFiles(fs, watch_masks), ignore_list)
            /\ pc' = "init_temp"
            /\ UNCHANGED <<log, exit_status>>
       ELSE \* the scan of a missing directory fails
            /\ log' = log \cup {"traceback"}
            /\ Finish(1)
            /\ UNCHANGED data
    /\ UNCHANGED <<fs, config, env, history, action, watch_masks, ignore_list,
                   modified, removed, added, printed, backup_path, old_db, wrote>>

\* init: f = open("tempfiledata.txt", 'w'); f.write(str(data)); f.close()
InitTemp ==
    /\ pc = "init_temp"
    /\ \E written \in BOOLEAN :
          IF written
          THEN /\ fs' = [fs EXCEPT ![TempPath(cwd)] = File(now, StrData(data))]
               /\ pc' = "init_open"
               /\ UNCHANGED <<log, exit_status>>
          ELSE \* IOError outside the try
               /\ log' = log \cup {"traceback"}
               /\ Finish(1)
               /\ UNCHANGED fs
    /\ UNCHANGED <<config, env, history, action, watch_masks, ignore_list, data,
                   modified, removed, added, printed, backup_path, old_db, wrote>>

\* init: db_file_fp = open(db_file, 'w'), inside the try
InitOpen ==
    /\ pc = "init_open"
    /\ \E opened \in BOOLEAN :
          IF opened
          THEN /\ fs' = [fs EXCEPT ![database] = File(now, BadJson)]
               /\ pc' = "init_dump"
               /\ UNCHANGED <<log, exit_status, wrote>>
          ELSE \* except IOError: logger.error; init returns None
               /\ log' = log \cup {"error: could not write data"}
               /\ wrote' = "failed"
               /\ Finish(0)
               /\ UNCHANGED fs
    /\ UNCHANGED <<config, env, history, action, watch_masks, ignore_list, data,
                   modified, removed, added, printed, backup_path, old_db>>

\* a slip: the I/O error of the write is not caught
InitDumpRaises ==
    /\ pc = "init_dump"
    /\ \E dumped \in BOOLEAN :
          IF dumped
          THEN /\ fs' = [fs EXCEPT ![database] = File(now, JsonDump(data))]
               /\ log' = log \cup {"info: database file written"}
               /\ wrote' = "ok"
               /\ Finish(0)
          ELSE /\ log' = log \cup {"traceback"}
               /\ wrote' = "failed"
               /\ Finish(1)
               /\ UNCHANGED fs
    /\ UNCHANGED <<config, env, history, action, watch_masks, ignore_list,
                   data, modified, removed, added, printed, backup_path, old_db>>

\* init: json.dump(data, db_file_fp); db_file_fp.close(), inside the try
InitDump ==
    /\ pc = "init_dump"
    /\ \E dumped \in BOOLEAN :
          IF dumped
          THEN /\ fs' = [fs EXCEPT ![database] = File(now, JsonDump(data))]
               /\ log' = log \cup {"info: database file written"}
               /\ wrote' = "ok"
               /\ snap' = IF track
                          THEN [stable |-> TRUE, masks |-> watch_masks,
                                ignore |-> ignore_list]
                          ELSE snap
               /\ ever_written' = IF track THEN ever_written \cup {JsonDump(data)}
                                  ELSE ever_written
          ELSE \* except IOError: logger.error; the file stays as far as it got
               /\ log' = log \cup {"error: could not write data"}
               /\ wrote' = "failed"
               /\ UNCHANGED <<fs, snap, ever_written>>
    /\ Finish(0)
    /\ UNCHANGED <<config, env, interfered, action, watch_masks, ignore_list,
                   data, modified, removed, added, printed, backup_path, old_db>>

\* ------------------------------------------------------------------ check

\* logger.error("Could not read database file, reason: %s" % ex)
LoadError(file, readable) ==
    IF ~file.exists THEN "error: could not read database file, reason: ENOENT"
    ELSE IF ~readable THEN "error: could not read database file, reason: EACCES"
    ELSE "error: could not read database file, reason: ValueError"


\* a slip: after the error is logged, check goes on with an empty snapshot
CheckLoadGoesOn ==
    /\ pc = "check_load"
    /\ \E readable \in BOOLEAN :
          IF fs[database].exists /\ readable /\ fs[database].data.kind = "json"
          THEN /\ data' = JsonLoad(fs[database].data)
               /\ UNCHANGED log
          ELSE /\ log' = log \cup {LoadError(fs[database], readable)}
               /\ data' = EmptyDict
    /\ pc' = "check_keys"
    /\ UNCHANGED <<fs, config, env, history, action, watch_masks, ignore_list,
                   modified, removed, added, printed, exit_status, backup_path,
                   old_db, wrote>>

\* check: open(self.config.database); json.load(f); except Exception: return 1
CheckLoad ==
    /\ pc = "check_load"
    /\ \E readable \in BOOLEAN :
          IF fs[database].exists /\ readable /\ fs[database].data.kind = "json"
          THEN /\ data' = JsonLoad(fs[database].data)
               /\ pc' = "check_keys"
               /\ UNCHANGED <<log, exit_status>>
          ELSE /\ log' = log \cup {LoadError(fs[database], readable)}
               /\ Finish(1)
               /\ UNCHANGED data
    /\ UNCHANGED <<fs, config, env, history, action, watch_masks, ignore_list,
                   modified, removed, added, printed, backup_path, old_db, wrote>>

\* check: for file_name, values in data.items(): ...
CheckKeys ==
    /\ pc = "check_keys"
    /\ modified' = ModifiedOf(data, fs)
    /\ removed' = RemovedOf(data, fs)
    /\ pc' = "check_scan"
    /\ UNCHANGED <<fs, config, env, history, action, watch_masks, ignore_list,
                   data, added, printed, log, exit_status, backup_path, old_db, wrote>>

\* a slip: a scan that fails counts as a scan that found nothing
CheckScanEmptyOnError ==
    /\ pc = "check_scan"
    /\ added' = IF ScanError THEN {}
                ELSE AddedOf(data, GetFiles(fs, watch_masks), ignore_list)
    /\ pc' = "check_summarize"
    /\ UNCHANGED <<fs, config, env, history, action, watch_masks, ignore_list,
                   data, modified, removed, printed, log, exit_status, backup_path,
                   old_db, wrote>>

\* check: curr_file_names = helpers.get_files(...), then the loop over them
CheckScan ==
    /\ pc = "check_scan"
    /\ IF ~ScanError
       THEN /\ added' = AddedOf(data, GetFiles(fs, watch_masks), ignore_list)
            /\ pc' = "check_summarize"
            /\ UNCHANGED <<log, exit_status>>
       ELSE \* the scan of a missing directory fails
            /\ log' = log \cup {"traceback"}
            /\ Finish(1)
            /\ UNCHANGED added
    /\ UNCHANGED <<fs, config, env, history, action, watch_masks, ignore_list,
                   data, modified, removed, printed, backup_path, old_db, wrote>>

\* check: self.summarize(); check returns None
Summarize ==
    /\ pc = "check_summarize"
    /\ printed' = TRUE
    /\ Finish(0)
    /\ UNCHANGED <<fs, config, env, history, action, watch_masks, ignore_list,
                   data, modified, removed, added, log, backup_path, old_db, wrote>>

\* ------------------------------------------------------------ environment

\* between two runs nothing of the finished process is left
Forget ==
    /\ pc' = "idle"
    /\ action' = "none"
    /\ watch_masks' = {}
    /\ ignore_list' = {}
    /\ data' = EmptyDict
    /\ modified' = {}
    /\ removed' = {}
    /\ added' = {}
    /\ printed' = FALSE
    /\ log' = {}
    /\ exit_status' = -1
    /\ backup_path' = <<>>
    /\ old_db' = Missing
    /\ wrote' = "none"

EnvStep ==
    /\ Resting
    /\ steps < MaxSteps
    /\ steps' = steps + 1
    /\ snap' = [snap EXCEPT !.stable = FALSE]
    /\ Forget

\* a file of the tree is created, or written again
Touch(p, m) ==
    /\ EnvStep
    /\ dir_exists
    /\ fs[p] # File(m, UserData)
    /\ fs' = [fs EXCEPT ![p] = File(m, UserData)]
    /\ UNCHANGED <<config, dir_exists, now, ever_written, interfered>>

\* a file of the tree is deleted
Delete(p) ==
    /\ EnvStep
    /\ fs[p].exists
    /\ fs' = [fs EXCEPT ![p] = Missing]
    /\ UNCHANGED <<config, dir_exists, now, ever_written, interfered>>

\* the watched directory is removed, with all it holds
RemoveDir ==
    /\ EnvStep
    /\ dir_exists
    /\ dir_exists' = FALSE
    /\ fs' = [p \in AllPaths |-> IF Under(p, WatchedDir) THEN Missing ELSE fs[p]]
    /\ interfered' = (interfered \/ (track /\ Under(database, WatchedDir)))
    /\ UNCHANGED <<config, now, ever_written>>

\* the watched directory is created again, empty
MakeDir ==
    /\ EnvStep
    /\ ~dir_exists
    /\ dir_exists' = TRUE
    /\ UNCHANGED <<fs, config, now, ever_written, interfered>>

\* a snapshot that init did not write here: copied from elsewhere or edited
ForeignSnapshot ==
    JsonDump([k \in UserFiles |->
                 [last_modif |-> IF k = XLog THEN MaxMtime ELSE 1,
                  last_modif_human |-> 0]])

\* the snapshot file is deleted (d = NoData), damaged (d = BadJson) or
\* replaced by a snapshot from elsewhere
WriteDb(d) ==
    /\ EnvStep
    /\ IF d = NoData THEN fs[database].exists
       ELSE fs[database] # File(fs[database].mtime, d)
    /\ Under(database, WatchedDir) => dir_exists
    /\ fs' = [fs EXCEPT ![database] =
                 IF d = NoData THEN Missing ELSE File(fs[database].mtime, d)]
    /\ interfered' = track
    /\ UNCHANGED <<config, dir_exists, now, ever_written>>

Next ==
    \/ \E masks \in MaskSets, ignore \in IgnoreLists :
          \/ \E advance \in BOOLEAN : Start("init", masks, ignore, advance)
          \/ Start("check", masks, ignore, FALSE)
    \/ InitBackup
    \/ InitScan
    \/ InitTemp
    \/ InitOpen
    \/ InitDump
    \/ CheckLoad
    \/ CheckKeys
    \/ CheckScan
    \/ Summarize
    \/ \E p \in UserFiles, m \in Mtimes : Touch(p, m)
    \/ \E p \in UserFiles : Delete(p)
    \/ RemoveDir
    \/ MakeDir
    \/ \E d \in {NoData, BadJson, ForeignSnapshot} : WriteDb(d)

Spec == Init /\ [][Next]_vars

\* the same program, with the history variables kept
SpecHistory == InitHistory /\ [][Next]_vars

\* ------------------------------------------------- reference definitions

\* PathFilter of the specification: ignore first, then the masks
Include(path, maskSet, ignoreList) ==
    /\ path \notin ignoreList
    /\ (maskSet = {} \/ \E m \in maskSet : Fnmatch(Basename(path), m))

\* the files that exist under the watched directory
TreeFiles == {p \in AllPaths : fs[p].exists /\ Under(p, WatchedDir)}

\* the snapshot as the file at the snapshot path holds it
SnapshotKeys == {e.key : e \in fs[database].data.entries}

Recorded(k) == (CHOOSE e \in fs[database].data.entries : e.key = k).last_modif

Loadable == fs[database].exists /\ fs[database].data.kind = "json"

RefRemoved == {k \in SnapshotKeys : ~fs[k].exists}

RefModified == {k \in SnapshotKeys : fs[k].exists /\ fs[k].mtime # Recorded(k)}

RefAdded ==
    {q \in TreeFiles : Include(q, watch_masks, ignore_list)} \ SnapshotKeys

\* a check that ran to its report
Reported == pc = "done" /\ action = "check" /\ printed

\* the backups of the snapshot file
Backups == {BackupPath(database, t) : t \in ClockValues}

\* ------------------------------------------------------------------ claims

\* C1: the three result sets of a check (added, removed, modified) are
\* pairwise disjoint, at every point of the check and in its report.
C1_Disjoint ==
    /\ added \cap removed = {}
    /\ added \cap modified = {}
    /\ removed \cap modified = {}

\* a report with a removed, a modified and an added path
C1_Witness == Reported /\ removed # {} /\ modified # {} /\ added # {}

\* C2: the report of check is the reference diff of the stored snapshot
\* against the file system: removed are the keys that cannot be read,
\* modified the readable keys whose time differs from the recorded one, added
\* the filtered scan without the keys; an unchanged key is in none of them.
C2_ReferenceDiff ==
    Reported =>
        /\ removed = RefRemoved
        /\ modified = RefModified
        /\ added = RefAdded
        /\ \A k \in SnapshotKeys :
              (fs[k].exists /\ fs[k].mtime = Recorded(k))
                 => k \notin removed \cup modified \cup added

\* a report with an added path, an unchanged key and a changed or missing key
C2_Witness ==
    /\ Reported
    /\ added # {}
    /\ removed \cup modified # {}
    /\ \E k \in SnapshotKeys : fs[k].exists /\ fs[k].mtime = Recorded(k)

\* C3 (as claimed): a check that follows a complete init with the same masks
\* and ignore list, nothing having changed since, reports three empty sets.
C3_Idempotent ==
    (/\ Reported
     /\ snap.stable
     /\ watch_masks = snap.masks
     /\ ignore_list = snap.ignore)
        => (added = {} /\ removed = {} /\ modified = {})

\* C4: the snapshot file init finds is renamed to <path>.backup.<timestamp>
\* before anything is written; during init and after it, also when the write
\* fails, a copy of the old content exists, and once the rename happened it
\* is the backup that holds it unchanged.
C4_BackupKept ==
    (action = "init" /\ old_db.exists) =>
        /\ \/ fs[database] = old_db
           \/ (backup_path # <<>> /\ fs[backup_path] = old_db)
        /\ (pc \in {"init_scan", "init_temp", "init_open", "init_dump"} \/ wrote # "none")
              => /\ backup_path # <<>>
                 /\ SubSeq(backup_path, 1, Len(database) + Len(BACKUP_INFIX))
                       = database \o BACKUP_INFIX
                 /\ fs[backup_path] = old_db

\* init ended after a failed write over an old snapshot, the backup intact
C4_Witness ==
    /\ pc = "done"
    /\ action = "init"
    /\ old_db.exists
    /\ old_db.data.kind = "json"
    /\ wrote = "failed"
    /\ fs[database] # old_db
    /\ fs[backup_path] = old_db

\* C5: the dictionary init builds, and the snapshot it writes, have as keys
\* exactly the files under the watched directory that pass the masks and are
\* not in the ignore list (ignore wins), each with the time read during init.
C5_SnapshotKeys ==
    /\ pc = "init_temp" =>
          /\ DOMAIN data = {p \in TreeFiles : Include(p, watch_masks, ignore_list)}
          /\ \A k \in DOMAIN data : data[k].last_modif = fs[k].mtime
    /\ (pc = "done" /\ action = "init" /\ wrote = "ok") =>
          /\ Loadable
          /\ SnapshotKeys = DOMAIN data
          /\ \A k \in SnapshotKeys : Recorded(k) = data[k].last_modif
          /\ \A p \in UserFiles :
                p \in SnapshotKeys <=>
                   (fs[p].exists /\ Include(p, watch_masks, ignore_list))
          /\ \A p \in UserFiles \cap SnapshotKeys : Recorded(p) = fs[p].mtime

\* a snapshot written with a file left out that a mask matches and the ignore
\* list names, and with another file in it
C5_Witness ==
    /\ pc = "done" /\ action = "init" /\ wrote = "ok"
    /\ \E p \in TreeFiles :
          /\ p \in ignore_list
          /\ watch_masks # {}
          /\ \E m \in watch_masks : Fnmatch(Basename(p), m)
          /\ p \notin SnapshotKeys
    /\ SnapshotKeys # {}

ScanFailed ==
    /\ pc = "done" /\ action = "check"
    /\ ~dir_exists
    /\ \A readable \in BOOLEAN : LoadError(fs[database], readable) \notin log

C8_WriteErrorNotFatal ==
    (wrote = "failed") =>
        /\ pc = "done"
        /\ action = "init"
        /\ exit_status = 0
        /\ "error: could not write data" \in log
        /\ "traceback" \notin log

\* a write that failed half way: the file is there, and not parseable
C8_Witness ==
    /\ wrote = "failed"
    /\ fs[database].exists
    /\ fs[database].data.kind = "unparseable"
    /\ exit_status = 0

\* a key of the snapshot that exists and that the masks or the ignore list
\* of this check exclude
Excluded(k) ==
    /\ k \in SnapshotKeys
    /\ fs[k].exists
    /\ ~Include(k, watch_masks, ignore_list)

\* C9: a snapshot key that still exists and is now excluded by the masks or
\* the ignore list is reported neither removed nor added, and is reported
\* modified exactly when its time differs from the recorded one.
C9_FilterAsymmetry ==
    Reported =>
        \A k \in AllPaths :
            Excluded(k) =>
                /\ k \notin removed
                /\ k \notin added
                /\ (k \in modified <=> fs[k].mtime # Recorded(k))

\* a report that lists as modified a key the masks (not the ignore list) of
\* this check exclude
C9_Witness ==
    /\ Reported
    /\ \E k \in AllPaths :
          /\ Excluded(k)
          /\ k \notin ignore_list
          /\ k \in modified
          /\ k \notin removed \cup added

\* C10 (as claimed): as long as only init touches the snapshot file and its
\* backups, every snapshot content init ever wrote completely still exists,
\* at the snapshot path or under a backup name.
C10_NoBackupLost ==
    ~interfered =>
        \A c \in ever_written :
            \E p \in {database} \cup Backups : fs[p].exists /\ fs[p].data = c

====
